---------------------------- MODULE Spec2Model ----------------------------
(***************************************************************************)
(* Model of the calendar core of zemenbar (src-tauri/src/lib.rs):          *)
(* EthiopianDate (from_gregorian, today, days_in_month, weekday,           *)
(* to_geez_number) and CalendarMonth::new, driven by the Tauri commands    *)
(* that call them.                                                         *)
(*                                                                         *)
(* Text is a sequence of Unicode code points.  The Geez glyphs are         *)
(*   U+1369..U+1371 = 4969..4977  digits one..nine                         *)
(*   U+1372..U+137A = 4978..4986  ten, twenty, .. ninety                   *)
(*   U+137B         = 4987        hundred                                  *)
(* and the ASCII digits '0'..'9' are 48..57.                               *)
(*                                                                         *)
(* A Rust panic (an out-of-range index) is the value Panicked; it          *)
(* propagates through every expression that uses it.                       *)
(***************************************************************************)
EXTENDS Integers, Sequences, FiniteSets, TLC

VARIABLES
    now,    \* the local calendar date of the wall clock (chrono Local::now)
    call,   \* the operation last invoked, with its arguments
    local,  \* the named locals of that invocation that the properties read
    ret     \* what the invocation returned (or that it panicked)

vars == <<now, call, local, ret>>

(***************************************************************************)
(* Bounds of the model.                                                    *)
(***************************************************************************)
MaxNum == 10020          \* to_geez_number is applied to 0..MaxNum
GregYearLo == 1895       \* Gregorian years GregYearLo..GregYearLo+GregYears
GregYears == 210
ConvEthYearLo == 1890    \* Ethiopian years for weekday / conversion back
ConvEthYears == 210
EthYearLo == 1960        \* Ethiopian years for days_in_month
EthYears == 120
ViewYearLo == 1988       \* Ethiopian years for CalendarMonth::new
ViewYears == 30
ClockDays == 20          \* the wall clock runs over NowStart + 0..ClockDays

NowStart == [year |-> 2023, month |-> 9, day |-> 1]

(***************************************************************************)
(* Results of expressions that may panic.                                  *)
(***************************************************************************)
Ok(t) == [panic |-> FALSE, text |-> t]

Panicked == [panic |-> TRUE, text |-> <<>>]

\* table[i] of a Rust array (0-based); out of range panics
Index(table, i) == IF i + 1 \in DOMAIN table THEN Ok(table[i + 1]) ELSE Panicked

\* format!("{}{}", a, b)
Format(a, b) == IF a.panic \/ b.panic THEN Panicked ELSE Ok(a.text \o b.text)

(***************************************************************************)
(* EthiopianDate::to_geez_number                                           *)
(***************************************************************************)
geez_digits ==
    << <<>>, <<4969>>, <<4970>>, <<4971>>, <<4972>>, <<4973>>, <<4974>>,
       <<4975>>, <<4976>>, <<4977>> >>

\* nine entries: "", ten .. sixty, then the glyphs of digit eight and digit nine
geez_tens ==
    << <<>>, <<4978>>, <<4979>>, <<4980>>, <<4981>>, <<4982>>, <<4983>>,
       <<4976>>, <<4977>> >>

TEN == <<4978>>

HUNDRED == <<4987>>

RECURSIVE to_string(_)
to_string(num) ==
    IF num < 10 THEN <<48 + num>>
    ELSE to_string(num \div 10) \o <<48 + (num % 10)>>

RECURSIVE to_geez_number(_)
to_geez_number(num) ==
    IF num = 0 THEN Ok(<<>>)
    ELSE IF num < 10 THEN Index(geez_digits, num)
    ELSE IF num < 100 THEN
        LET tens == num \div 10
            ones == num % 10
        IN  IF tens = 1
            THEN IF ones = 0 THEN Ok(TEN)
                 ELSE Format(Ok(TEN), Index(geez_digits, ones))
            ELSE IF ones = 0 THEN Index(geez_tens, tens)
            ELSE Format(Index(geez_tens, tens), Index(geez_digits, ones))
    ELSE IF num < 1000 THEN
        LET hundreds == num \div 100
            remainder == num % 100
            hundred_part ==
                IF hundreds = 1 THEN Ok(HUNDRED)
                ELSE Format(Index(geez_digits, hundreds), Ok(HUNDRED))
        IN  IF remainder = 0 THEN hundred_part
            ELSE Format(hundred_part, to_geez_number(remainder))
    ELSE IF num < 10000 THEN
        LET thousands == num \div 100
            remainder == num % 100
            hundred_part ==
                IF thousands < 10
                THEN Format(Index(geez_digits, thousands), Ok(HUNDRED))
                ELSE IF thousands < 100 THEN
                    LET tens == thousands \div 10
                        ones == thousands % 10
                    IN  IF tens = 1
                        THEN IF ones = 0 THEN Ok(TEN \o HUNDRED)
                             ELSE Format(Format(Ok(TEN), Index(geez_digits, ones)),
                                         Ok(HUNDRED))
                        ELSE IF ones = 0
                        THEN Format(Index(geez_tens, tens), Ok(HUNDRED))
                        ELSE Format(Format(Index(geez_tens, tens),
                                           Index(geez_digits, ones)),
                                    Ok(HUNDRED))
                ELSE Format(to_geez_number(thousands), Ok(HUNDRED))
        IN  IF remainder = 0 THEN hundred_part
            ELSE Format(hundred_part, to_geez_number(remainder))
    ELSE Ok(to_string(num))

(***************************************************************************)
(* The two libraries the calendar code calls.  Their sources are not part  *)
(* of this repository: chrono's NaiveDate and the ethiopic_calendar        *)
(* conversions are modelled by their contracts (proleptic Gregorian dates, *)
(* conversion through the Julian Day Number anchored at the Amete Mihret   *)
(* epoch).                                                                 *)
(***************************************************************************)
is_leap_year(y) == (y % 4 = 0 /\ y % 100 # 0) \/ y % 400 = 0

days_in_gregorian_month(y, m) ==
    IF m = 2 THEN (IF is_leap_year(y) THEN 29 ELSE 28)
    ELSE IF m \in {4, 6, 9, 11} THEN 30 ELSE 31

\* chrono::NaiveDate::from_ymd_opt(y, m, d).is_some()
from_ymd_opt(g) ==
    /\ g.month \in 1..12
    /\ g.day >= 1
    /\ g.day <= days_in_gregorian_month(g.year, g.month)

\* Julian Day Number of a proleptic Gregorian date
GregorianToJDN(g) ==
    LET a == (14 - g.month) \div 12
        y == g.year + 4800 - a
        m == g.month + 12 * a - 3
    IN  g.day + (153 * m + 2) \div 5 + 365 * y + y \div 4 - y \div 100
        + y \div 400 - 32045

JDNToGregorian(jdn) ==
    LET f == jdn + 1401 + (((4 * jdn + 274277) \div 146097) * 3) \div 4 - 38
        e == 4 * f + 3
        g == (e % 1461) \div 4
        h == 5 * g + 2
        d == (h % 153) \div 5 + 1
        m == ((h \div 153 + 2) % 12) + 1
        y == e \div 1461 - 4716 + (12 + 2 - m) \div 12
    IN  [year |-> y, month |-> m, day |-> d]

\* Julian Day Number offset of the Amete Mihret era
AmeteMihretEpoch == 1723856

EthiopicToJDN(e) ==
    AmeteMihretEpoch + 365 + 365 * (e.year - 1) + e.year \div 4
    + 30 * e.month + e.day - 31

JDNToEthiopic(jdn) ==
    LET r == (jdn - AmeteMihretEpoch) % 1461
        n == (r % 365) + 365 * (r \div 1460)
    IN  [year |-> 4 * ((jdn - AmeteMihretEpoch) \div 1461) + r \div 365
                  - r \div 1460,
         month |-> n \div 30 + 1,
         day |-> (n % 30) + 1]

\* let ethiopian: EthiopianYear = GregorianYear::new(y, m, d).into()
ToEthiopian(g) == JDNToEthiopic(GregorianToJDN(g))

\* let gregorian: GregorianYear = EthiopianYear::new(y, m, d).into()
ToGregorian(e) == JDNToGregorian(EthiopicToJDN(e))

\* chrono: date.weekday().num_days_from_sunday()
num_days_from_sunday(g) == (GregorianToJDN(g) + 1) % 7

num_days_from_monday(g) == GregorianToJDN(g) % 7

(***************************************************************************)
(* EthiopianDate                                                           *)
(***************************************************************************)
YMD(d) == [year |-> d.year, month |-> d.month, day |-> d.day]

\* Self { year, month, day, day_geez: Self::to_geez_number(day) }
EthiopianDate(ethiopian) ==
    LET day_geez == to_geez_number(ethiopian.day)
    IN  IF day_geez.panic THEN [panic |-> TRUE, tag |-> "panic"]
        ELSE [panic |-> FALSE, tag |-> "Some",
              value |-> [year |-> ethiopian.year, month |-> ethiopian.month,
                         day |-> ethiopian.day, day_geez |-> day_geez.text]]

from_gregorian_swapped(year, month, day) ==
    EthiopianDate(ToEthiopian([year |-> year, month |-> day, day |-> month]))

\* Option<Self>: the only return is Some(..)
from_gregorian(year, month, day) ==
    EthiopianDate(ToEthiopian([year |-> year, month |-> month, day |-> day]))

\* EthiopianDate::today() for the wall clock date n
today(n) == EthiopianDate(ToEthiopian(n)).value

days_in_month_leap0(self) ==
    IF self.month = 13 THEN (IF self.year % 4 = 0 THEN 6 ELSE 5) ELSE 30

days_in_month(self) ==
    IF self.month = 13 THEN (IF self.year % 4 = 3 THEN 6 ELSE 5) ELSE 30

weekday_of_from_monday(gregorian) ==
    IF from_ymd_opt(gregorian) THEN num_days_from_monday(gregorian) ELSE 0

\* the if-let of weekday: the day of week of `gregorian`, or 0
weekday_of(gregorian) ==
    IF from_ymd_opt(gregorian) THEN num_days_from_sunday(gregorian) ELSE 0

weekday(self) == weekday_of(ToGregorian(YMD(self)))

english_month(self) ==
    IF self.month \in 1..13
    THEN << "Meskerem", "Tikimt", "Hidar", "Tahsas", "Tir", "Yekatit",
            "Megabit", "Miazia", "Ginbot", "Sene", "Hamle", "Nehase",
            "Pagume" >>[self.month]
    ELSE "Unknown"

english_weekday(self) ==
    IF weekday(self) \in 0..6
    THEN << "Sunday", "Monday", "Tuesday", "Wednesday", "Thursday", "Friday",
            "Saturday" >>[weekday(self) + 1]
    ELSE "Unknown"

(***************************************************************************)
(* CalendarMonth::new(year, month), with `tdy` the value of                *)
(* EthiopianDate::today() it reads once.  The Amharic names are fixed      *)
(* texts like the English ones and are left out.                           *)
(***************************************************************************)
CalendarDay(year, month, day, tdy) ==
    LET day_geez == to_geez_number(day)
        date == [year |-> year, month |-> month, day |-> day]
    IN  [panic |-> day_geez.panic,
         value |-> [day |-> day,
                    day_geez |-> day_geez.text,
                    is_today |-> date.year = tdy.year /\ date.month = tdy.month
                                 /\ date.day = tdy.day,
                    weekday |-> weekday(date),
                    weekday_name_english |-> english_weekday(date)]]

CalendarMonth_new(year, month, tdy) ==
    LET first_day == [year |-> year, month |-> month, day |-> 1]
        dim == days_in_month(first_day)
        first_day_weekday == weekday(first_day)
        days == [day \in 1..dim |-> CalendarDay(year, month, day, tdy)]
        year_geez == to_geez_number(year)
    IN  IF to_geez_number(1).panic \/ (\E day \in 1..dim : days[day].panic)
           \/ year_geez.panic
        THEN [panic |-> TRUE]
        ELSE [panic |-> FALSE,
              value |-> [year |-> year,
                         year_geez |-> year_geez.text,
                         month |-> month,
                         month_name_english |-> english_month(first_day),
                         days |-> [day \in 1..dim |-> days[day].value],
                         first_day_weekday |-> first_day_weekday]]

(***************************************************************************)
(* Initial state and the actions.                                          *)
(***************************************************************************)
NoCall == [op |-> "none"]

NoLocal == [op |-> "none"]

Init ==
    /\ now = NowStart
    /\ call = NoCall
    /\ local = NoLocal
    /\ ret = [panic |-> FALSE]

\* Calls are synchronous: one is invoked when none is in progress, and its
\* caller takes the result before the next one starts.
Return ==
    /\ call # NoCall
    /\ call' = NoCall
    /\ local' = NoLocal
    /\ ret' = [panic |-> FALSE]
    /\ UNCHANGED now

\* a caller renders a number: EthiopianDate::to_geez_number(num)
ToGeezNumber ==
    /\ call = NoCall
    /\ \E num \in 0..MaxNum :
        /\ call' = [op |-> "to_geez_number", num |-> num]
        /\ ret' = to_geez_number(num)
        /\ local' = NoLocal
        /\ UNCHANGED now

NextGeez == ToGeezNumber \/ Return

SpecGeez == Init /\ [][NextGeez]_vars

(***************************************************************************)
(* The conversions.                                                        *)
(***************************************************************************)
GregYearSet == GregYearLo..(GregYearLo + GregYears)

ConvEthDates ==
    { e \in [year : ConvEthYearLo..(ConvEthYearLo + ConvEthYears),
             month : 1..13, day : 1..30] : e.day <= days_in_month(e) }

\* The Tauri command convert_gregorian_to_ethiopian(year, month, day).  What
\* the conversion library does with a date that does not exist is not in
\* these sources: it either computes on or panics; it cannot make
\* from_gregorian return None.
ConvertGregorian ==
    /\ call = NoCall
    /\ \E year \in GregYearSet, month \in 0..13, day \in 0..32 :
        /\ call' = [op |-> "convert_gregorian_to_ethiopian",
                    year |-> year, month |-> month, day |-> day]
        /\ \/ ret' = from_gregorian(year, month, day)
           \/ /\ ~from_ymd_opt([year |-> year, month |-> month, day |-> day])
              /\ ret' = [panic |-> TRUE, tag |-> "panic"]
        /\ local' = NoLocal
        /\ UNCHANGED now

\* EthiopianDate::weekday(&self) on a valid Ethiopian date
Weekday ==
    /\ call = NoCall
    /\ \E self \in ConvEthDates :
        /\ call' = [op |-> "weekday", self |-> self]
        /\ local' = [op |-> "weekday", gregorian |-> ToGregorian(self)]
        /\ ret' = [panic |-> FALSE, value |-> weekday(self)]
        /\ UNCHANGED now

NextConv == ConvertGregorian \/ Weekday \/ Return

SpecConv == Init /\ [][NextConv]_vars

(***************************************************************************)
(* The month view.                                                         *)
(***************************************************************************)
\* the wall clock passes midnight
Tick ==
    /\ GregorianToJDN(now) < GregorianToJDN(NowStart) + ClockDays
    /\ now' = JDNToGregorian(GregorianToJDN(now) + 1)
    /\ UNCHANGED <<call, local, ret>>

\* The Tauri command get_current_ethiopian_date()
GetCurrentDate ==
    /\ call = NoCall
    /\ call' = [op |-> "get_current_ethiopian_date"]
    /\ local' = NoLocal
    /\ ret' = EthiopianDate(ToEthiopian(now))
    /\ UNCHANGED now

\* EthiopianDate::days_in_month(&self)
DaysInMonth ==
    /\ call = NoCall
    /\ \E year \in EthYearLo..(EthYearLo + EthYears), month \in 1..13 :
        /\ call' = [op |-> "days_in_month", year |-> year, month |-> month]
        /\ local' = NoLocal
        /\ ret' = [panic |-> FALSE,
                   value |-> days_in_month([year |-> year, month |-> month,
                                            day |-> 1])]
        /\ UNCHANGED now

\* The Tauri command get_ethiopian_calendar_month(year, month)
GetMonth ==
    /\ call = NoCall
    /\ \E year \in ViewYearLo..(ViewYearLo + ViewYears), month \in 1..13 :
        /\ call' = [op |-> "get_ethiopian_calendar_month",
                    year |-> year, month |-> month]
        /\ local' = [op |-> "CalendarMonth::new", today |-> today(now)]
        /\ ret' = CalendarMonth_new(year, month, today(now))
        /\ UNCHANGED now

NextMonth == Tick \/ GetCurrentDate \/ DaysInMonth \/ GetMonth \/ Return

SpecMonth == Init /\ [][NextMonth]_vars

\* every operation of the core
Next == NextGeez \/ NextConv \/ NextMonth

Spec == Init /\ [][Next]_vars

(***************************************************************************)
(* Reference values the properties compare against.                        *)
(***************************************************************************)
\* the Ethiopic digit glyph of d, 1..9 (U+1369..U+1371)
UnitGlyph(d) == IF d = 0 THEN <<>> ELSE <<4968 + d>>

\* the Ethiopic number glyph of 10 * t, t in 1..9 (U+1372..U+137A)
TensGlyph(t) == <<4977 + t>>

\* Zeller's congruence, counted from Sunday = 0
ZellerFromSunday(g) ==
    LET m == IF g.month < 3 THEN g.month + 12 ELSE g.month
        y == IF g.month < 3 THEN g.year - 1 ELSE g.year
        K == y % 100
        J == y \div 100
        h == (g.day + (13 * (m + 1)) \div 5 + K + K \div 4 + J \div 4 + 5 * J) % 7
    IN  (h + 6) % 7

CallArgs == [year |-> call.year, month |-> call.month, day |-> call.day]

(***************************************************************************)
(* The properties.                                                         *)
(***************************************************************************)
\* C1: to_geez_number is total: for every non-negative n it returns a text
\* and never panics, the n with tens digit 9 and n in 9000..9999 included.
C1_Total ==
    call.op = "to_geez_number" => ~ret.panic

\* C2: convert_gregorian_to_ethiopian returns None for every (year, month,
\* day) that is not an existing proleptic Gregorian date, and Some date for
\* every existing one.
C2_Validates ==
    call.op = "convert_gregorian_to_ethiopian" =>
        IF from_ymd_opt(CallArgs) THEN ret.tag = "Some" ELSE ret.tag = "None"

\* C3: round trip: a valid Gregorian date converted to Ethiopian (as
\* from_gregorian does) and back (as weekday does) is the original date, and
\* a valid Ethiopian date converted to Gregorian (as weekday does) and back
\* (as from_gregorian does) is the original date.
C3_RoundTrip ==
    /\ (call.op = "convert_gregorian_to_ethiopian" /\ from_ymd_opt(CallArgs)) =>
          /\ ret.tag = "Some"
          /\ ret.value.month \in 1..13
          /\ ret.value.day \in 1..days_in_month(ret.value)
          /\ ToGregorian(YMD(ret.value)) = CallArgs
    /\ call.op = "weekday" =>
          /\ from_ymd_opt(local.gregorian)
          /\ LET back == from_gregorian(local.gregorian.year,
                                        local.gregorian.month,
                                        local.gregorian.day)
             IN  back.tag = "Some" /\ YMD(back.value) = call.self

\* a leap day went to the Ethiopian calendar and came back
C3_Witness ==
    /\ call = [op |-> "convert_gregorian_to_ethiopian",
               year |-> 2000, month |-> 2, day |-> 29]
    /\ ret.tag = "Some"
    /\ YMD(ret.value) = [year |-> 1992, month |-> 6, day |-> 21]

\* C4: CalendarMonth::new(year, month) yields a days sequence of length
\* days_in_month(year, month) whose i-th element has day = i.
C4_DaysContiguous ==
    call.op = "get_ethiopian_calendar_month" =>
        /\ ~ret.panic
        /\ Len(ret.value.days)
             = days_in_month([year |-> call.year, month |-> call.month])
        /\ \A i \in 1..Len(ret.value.days) : ret.value.days[i].day = i

\* C5: CalendarMonth::new(year, month) marks exactly one day is_today, the
\* one whose day is today's, when (year, month) is today's year and month,
\* and marks none otherwise.
C5_ExactlyOneToday ==
    call.op = "get_ethiopian_calendar_month" =>
        /\ ~ret.panic
        /\ LET marked == { i \in 1..Len(ret.value.days) :
                             ret.value.days[i].is_today }
           IN  IF call.year = local.today.year /\ call.month = local.today.month
               THEN /\ Cardinality(marked) = 1
                    /\ \A i \in marked : ret.value.days[i].day = local.today.day
               ELSE marked = {}

\* C6: CalendarMonth::new(year, month) sets first_day_weekday to the weekday
\* field of the first element of days.
C6_FirstDayWeekday ==
    call.op = "get_ethiopian_calendar_month" =>
        /\ ~ret.panic
        /\ Len(ret.value.days) >= 1
        /\ ret.value.first_day_weekday = ret.value.days[1].weekday

\* C7: weekday of a valid Ethiopian date is in 0..6 (0 = Sunday) and is the
\* proleptic Gregorian day of week of the Gregorian date it converts to; the
\* default 0 of the else branch is never taken.
C7_Weekday ==
    call.op = "weekday" =>
        /\ ret.value \in 0..6
        /\ from_ymd_opt(local.gregorian)
        /\ ret.value = ZellerFromSunday(local.gregorian)
        /\ ret.value = (EthiopicToJDN(call.self) + 1) % 7

\* Meskerem 1, 2017 (11 September 2024) is a Wednesday
C7_Witness ==
    /\ call = [op |-> "weekday", self |-> [year |-> 2017, month |-> 1, day |-> 1]]
    /\ local.gregorian = [year |-> 2024, month |-> 9, day |-> 11]
    /\ ret.value = 3

\* C8: days_in_month is 6 for month 13 when year mod 4 = 3 and 5 otherwise,
\* and 30 for every month 1..12, over at least 100 consecutive years.
C8_LeapPlacement ==
    /\ EthYears >= 100
    /\ call.op = "days_in_month" =>
          ret.value = IF call.month \in 1..12 THEN 30
                      ELSE IF call.year % 4 = 3 THEN 6 ELSE 5

\* Pagume of a leap year has six days
C8_Witness ==
    /\ call = [op |-> "days_in_month", year |-> 2015, month |-> 13]
    /\ ret.value = 6

\* C9: for 10 <= n < 100, to_geez_number(n) is the tens glyph of n div 10
\* followed by the unit glyph of n mod 10 (nothing when n mod 10 = 0).
C9_TensOnes ==
    (call.op = "to_geez_number" /\ call.num >= 10 /\ call.num < 100) =>
        /\ ~ret.panic
        /\ ret.text = TensGlyph(call.num \div 10) \o UnitGlyph(call.num % 10)

\* C10: for 1000 <= n < 10000, to_geez_number(n) is the text to_geez_number
\* gives for n div 100, then the hundred marker, then to_geez_number(n mod
\* 100), nothing when n mod 100 = 0.
C10_Thousands ==
    (call.op = "to_geez_number" /\ call.num >= 1000 /\ call.num < 10000) =>
        /\ ~ret.panic
        /\ ~to_geez_number(call.num \div 100).panic
        /\ ~to_geez_number(call.num % 100).panic
        /\ ret.text = to_geez_number(call.num \div 100).text \o HUNDRED
                      \o to_geez_number(call.num % 100).text

(***************************************************************************)
(* What the calls that do return satisfy (SpecGeez, SpecConv, SpecMonth).  *)
(***************************************************************************)
\* the numerals 10..69 are tens glyph then unit glyph
TensOnesBelow70 ==
    (call.op = "to_geez_number" /\ call.num >= 10 /\ call.num < 70) =>
        /\ ~ret.panic
        /\ ret.text = TensGlyph(call.num \div 10) \o UnitGlyph(call.num % 10)

\* a returned numeral of 1000..9999 is the composition of its two halves
ReturnedThousands ==
    (call.op = "to_geez_number" /\ call.num >= 1000 /\ call.num < 10000
     /\ ~ret.panic) =>
        ret.text = to_geez_number(call.num \div 100).text \o HUNDRED
                   \o to_geez_number(call.num % 100).text

\* an existing Gregorian date is converted to Some date
ExistingDateGivesSome ==
    (call.op = "convert_gregorian_to_ethiopian" /\ from_ymd_opt(CallArgs)) =>
        ret.tag = "Some"

\* a returned month view has contiguous days, one mark at most, and the
\* weekday of its first day
ReturnedMonthView ==
    (call.op = "get_ethiopian_calendar_month" /\ ~ret.panic) =>
        LET days == ret.value.days
            marked == { i \in 1..Len(days) : days[i].is_today }
        IN  /\ Len(days) = days_in_month([year |-> call.year,
                                          month |-> call.month])
            /\ \A i \in 1..Len(days) : days[i].day = i
            /\ ret.value.first_day_weekday = days[1].weekday
            /\ IF call.year = local.today.year /\ call.month = local.today.month
               THEN /\ Cardinality(marked) = 1
                    /\ \A i \in marked : days[i].day = local.today.day
               ELSE marked = {}

(***************************************************************************)
(* Injectivity of the numerals.                                            *)
(***************************************************************************)
\* what to_geez_number gives for each number of the Geez range
GeezRange == [n \in 1..9999 |-> to_geez_number(n)]

\* the numbers other than call.num that are rendered with the text returned
SameText == { b \in 1..9999 : /\ b # call.num
                              /\ ~GeezRange[b].panic
                              /\ GeezRange[b].text = ret.text }

\* C11: to_geez_number is injective on 1..9999 where it returns: no other
\* number of the range is rendered with the text returned for call.num; in
\* particular every tens glyph differs from every unit glyph and from every
\* other tens glyph.
C11_Injective ==
    (call.op = "to_geez_number" /\ call.num \in 1..9999 /\ ~ret.panic) =>
        SameText = {}

\* the numerals without a tens digit 7 or 8 are rendered with a text of
\* their own
InjectiveWithout70And80 ==
    (call.op = "to_geez_number" /\ call.num \in 1..9999 /\ ~ret.panic
     /\ (call.num \div 10) % 10 \notin {7, 8}
     /\ (call.num \div 1000) \notin {7, 8}) =>
        \A b \in SameText : (b \div 10) % 10 \in {7, 8} \/ b \div 1000 \in {7, 8}

=============================================================================
